---- MODULE Spec2Model ----
(***************************************************************************)
(* R2RAuthProvider (py/core/providers/auth/r2r_auth.py): token issuance,   *)
(* verification, rotation and revocation, API keys, the dual-mode          *)
(* credential resolver and the account flows.                              *)
(*                                                                         *)
(* The provider's collaborators (crypto_provider, database_provider,       *)
(* email_provider) are not part of the source shown; they are modelled     *)
(* from the design document and kept in their own section.                 *)
(***************************************************************************)
EXTENDS Integers, Sequences, FiniteSets, TLC

VARIABLES
    now,          \* datetime.now(timezone.utc), in abstract ticks
    blacklist,    \* Directory Store: blacklisted token strings
    issued,       \* token strings the provider has handed out
    revoked,      \* history: token strings written to the blacklist
    redeemed,     \* history: single-use credentials a call has accepted
    users,        \* Directory Store: email -> user row
    apiKeys,      \* Directory Store: API key records
    issuedKeys,   \* history: results of create_user_api_key
    verificationCodes,  \* Directory Store: verification codes
    resetTokens,  \* Directory Store: user id -> reset token
    outbox,       \* Notifier: emails sent
    config,       \* AuthConfig
    co,           \* coroutines: the calls in flight, each at its await
    ret           \* the last completed call: operation, argument, outcome

tokenVars == <<now, blacklist, issued, revoked, redeemed>>
storeVars == <<users, apiKeys, issuedKeys, verificationCodes, resetTokens,
               outbox, config>>
vars == <<now, blacklist, issued, revoked, redeemed, users, apiKeys, issuedKeys,
          verificationCodes, resetTokens, outbox, config, co, ret>>

(***************************************************************************)
(* Bounds of the model.                                                    *)
(***************************************************************************)
MaxTime == 2
MaxIssued == 2
AccessLifetime == 1
RefreshLifetime == 2
MaxKeys == 1
MaxSameNameKeys == 2

Emails == {"a@x.com", "b@x.com"}
TokenTypes == {"access", "refresh"}

(***************************************************************************)
(* Python values.                                                          *)
(***************************************************************************)
None == "None"
NoExp == -1

Return(v) == [ok |-> TRUE, value |-> v]
Raise(e) == [ok |-> FALSE, error |-> e]
R2RException(status_code, message) ==
    [exc |-> "R2RException", status_code |-> status_code, message |-> message]
HTTPException(status_code, detail) ==
    [exc |-> "HTTPException", status_code |-> status_code, message |-> detail]
Fault(name) == [exc |-> name, status_code |-> 0, message |-> ""]

IsR2RException(r) == ~r.ok /\ r.error.exc = "R2RException"

(***************************************************************************)
(* Strings.  A string is a sequence of chunks; the separator "." and the   *)
(* scheme marker "Bearer " are chunks of their own, so that split and      *)
(* removeprefix act on the text and not on its meaning.                    *)
(***************************************************************************)
Lit(s) == [c |-> "lit", s |-> s]
Dot == Lit(".")
BearerPrefix == Lit("Bearer ")

Min(S) == CHOOSE x \in S : \A y \in S : x <= y

\* str.split(".", 1) unpacked into two names: ValueError without a "."
SplitFirstDot(s) ==
    LET dots == {i \in 1..Len(s) : s[i] = Dot}
    IN  IF dots = {}
        THEN Raise(Fault("ValueError"))
        ELSE Return(<<SubSeq(s, 1, Min(dots) - 1),
                      SubSeq(s, Min(dots) + 1, Len(s))>>)

\* str.removeprefix("Bearer ")
RemoveBearerPrefix(s) ==
    IF Len(s) >= 1 /\ s[1] = BearerPrefix THEN Tail(s) ELSE s

(***************************************************************************)
(* A call into the Directory Store or the Notifier may fail; NoFault is    *)
(* its success.                                                            *)
(***************************************************************************)
NoFault == Return(None)
CollaboratorFaults ==
    {Raise(R2RException(404, "Not found")),
     Raise(Fault("ConnectionError"))}

(***************************************************************************)
(* Credential Cipher (crypto_provider), modelled from the design document. *)
(***************************************************************************)
Claims(sub, token_type, exp) ==
    [c |-> "claims", sub |-> sub, token_type |-> token_type, exp |-> exp]
Signature(by) == [c |-> "sig", by |-> by]
\* the cipher's rejection (verify_secure_token returning None)
NoPayload == [c |-> "None"]

\* signToken(claims, expiry) -> string.  The string is represented by what
\* verifyToken reads back from it: the claims, the expiry and the signature.
\* Whether the cipher also puts a unique token id into the string is left
\* open by the design document, so two signings of equal claims and expiry
\* are one string here only as a representation; no property below is
\* settled by their being equal or different.
generate_secure_token(data, expiry) ==
    <<Lit("hdr"), Dot, Claims(data.sub, data.token_type, expiry), Dot,
      Signature("server")>>

\* verifyToken(string) -> claims | Invalid.  The cipher's own expiry check
\* may or may not reject a token past its expiry (cipherExpiry).
verify_secure_token(token, t, cipherExpiry) ==
    IF /\ Len(token) = 5
       /\ token[1] = Lit("hdr")
       /\ token[2] = Dot
       /\ token[3].c = "claims"
       /\ token[4] = Dot
       /\ token[5] = Signature("server")
       /\ ~(cipherExpiry /\ token[3].exp # NoExp /\ token[3].exp < t)
    THEN token[3]
    ELSE NoPayload

(***************************************************************************)
(* Directory Store: token_handler, modelled from the design document.      *)
(***************************************************************************)
is_token_blacklisted(bl, token) == token \in bl

blacklist_token(bl, token) == bl \cup {token}

\* "purges blacklist entries past their own token expiry"
store_clean_expired_blacklisted_tokens(bl, t) ==
    {tok \in bl :
        LET p == verify_secure_token(tok, t, FALSE)
        IN  ~(p # NoPayload /\ p.exp # NoExp /\ p.exp < t)}

(***************************************************************************)
(* Token Service.                                                          *)
(***************************************************************************)
\* a slip: the access token is given the refresh kind
create_access_token_RefreshKind(data, t) ==
    generate_secure_token([sub |-> data.sub, token_type |-> "refresh"],
                          t + AccessLifetime)

create_access_token(data, t) ==
    generate_secure_token([sub |-> data.sub, token_type |-> "access"],
                          t + AccessLifetime)

create_refresh_token(data, t) ==
    generate_secure_token([sub |-> data.sub, token_type |-> "refresh"],
                          t + RefreshLifetime)

TokenData(email, token_type, exp) ==
    [email |-> email, token_type |-> token_type, exp |-> exp]

\* a slip: the expiry of the claims is left to the cipher
decode_after_lookup_NoExpiryCheck(listed, token, t, cipherExpiry) ==
    IF listed
    THEN Raise(R2RException(401, "Token has been invalidated"))
    ELSE LET payload == verify_secure_token(token, t, cipherExpiry)
         IN  IF payload = NoPayload
             THEN Raise(R2RException(401, "Invalid or expired token"))
             ELSE IF \/ payload.sub = None
                     \/ payload.token_type = None
                     \/ payload.exp = NoExp
             THEN Raise(R2RException(401, "Invalid token claims"))
             ELSE Return(TokenData(payload.sub, payload.token_type,
                                   payload.exp))

\* decode_token after the blacklist lookup has answered `listed`
decode_after_lookup(listed, token, t, cipherExpiry) ==
    IF listed
    THEN Raise(R2RException(401, "Token has been invalidated"))
    ELSE LET payload == verify_secure_token(token, t, cipherExpiry)
         IN  IF payload = NoPayload
             THEN Raise(R2RException(401, "Invalid or expired token"))
             ELSE IF \/ payload.sub = None
                     \/ payload.token_type = None
                     \/ payload.exp = NoExp
             THEN Raise(R2RException(401, "Invalid token claims"))
             ELSE IF payload.exp < t
             THEN Raise(R2RException(401, "Token has expired"))
             ELSE Return(TokenData(payload.sub, payload.token_type,
                                   payload.exp))

\* a slip: the cipher is asked before the blacklist
decode_token_CipherFirst(bl, token, t, cipherExpiry) ==
    IF verify_secure_token(token, t, cipherExpiry) = NoPayload
    THEN Raise(R2RException(401, "Invalid or expired token"))
    ELSE decode_after_lookup(is_token_blacklisted(bl, token), token, t,
                             cipherExpiry)

\* a slip: the blacklist is not consulted
decode_token_NoBlacklist(bl, token, t, cipherExpiry) ==
    decode_after_lookup(FALSE, token, t, cipherExpiry)

decode_token(bl, token, t, cipherExpiry) ==
    decode_after_lookup(is_token_blacklisted(bl, token), token, t,
                        cipherExpiry)

\* refresh_access_token up to its blacklist write: the kind check on what
\* decode_token returned
refresh_check(decoded) ==
    IF ~decoded.ok
    THEN decoded
    ELSE IF decoded.value.token_type # "refresh"
    THEN Raise(R2RException(401, "Invalid refresh token"))
    ELSE decoded

\* a slip: the presented refresh token is not blacklisted
refresh_rotate_NoRotation(token_data, bl, refresh_token, t, write_fault) ==
    [bl |-> bl,
     res |-> Return(
         [access_token |->
              create_access_token([sub |-> token_data.email], t),
          refresh_token |->
              create_refresh_token([sub |-> token_data.email], t)])]

\* a slip: a failure of the blacklist write is swallowed
refresh_rotate_IgnoreWriteFailure(token_data, bl, refresh_token, t, write_fault) ==
    [bl |-> IF write_fault # NoFault THEN bl
            ELSE blacklist_token(bl, refresh_token),
     res |-> Return(
         [access_token |->
              create_access_token([sub |-> token_data.email], t),
          refresh_token |->
              create_refresh_token([sub |-> token_data.email], t)])]

\* refresh_access_token from its blacklist write on: the new blacklist and
\* the pair returned, or the failure of the write
refresh_rotate(token_data, bl, refresh_token, t, write_fault) ==
    IF write_fault # NoFault
    THEN [bl |-> bl, res |-> write_fault]
    ELSE [bl |-> blacklist_token(bl, refresh_token),
          res |-> Return(
              [access_token |->
                   create_access_token([sub |-> token_data.email], t),
               refresh_token |->
                   create_refresh_token([sub |-> token_data.email], t)])]

(***************************************************************************)
(* Credential Cipher: passwords and API keys, modelled from the design     *)
(* document.                                                               *)
(***************************************************************************)
Passwords == {"pw1", "pw2"}
get_password_hash(password) == [c |-> "bcrypt", of |-> password]
verify_password(plain_password, hashed_password) ==
    get_password_hash(plain_password) = hashed_password
\* a stored str that is no hash; on it verify_password raises, as bcrypt
\* does (ValueError)
MalformedHash == [c |-> "not a hash"]
verify_password_raises(hashed_password) == hashed_password = MalformedHash

Secrets == {"s1", "s2"}
\* generateApiKey() -> (publicId, rawSecret): the n-th public id, and a
\* secret of the caller's draw
KeyId(n) == <<[c |-> "key_id", n |-> n]>>
RawKey(secret) == <<Lit(secret)>>
hash_api_key(raw_api_key) == [c |-> "sha", of |-> raw_api_key]
verify_api_key(raw_api_key, hashed_key) == hash_api_key(raw_api_key) = hashed_key

(***************************************************************************)
(* Directory Store: users_handler, modelled from the design document.  A   *)
(* lookup of a user that does not exist raises the store's "not found"     *)
(* error, status 404 (the condition request_password_reset absorbs).       *)
(***************************************************************************)
UserIds == {1, 2}
IdOf(email) == IF email = "a@x.com" THEN 1 ELSE 2
NoUser == [exists |-> FALSE]
UserRow(email, hashed_password, is_active, is_verified) ==
    [exists |-> TRUE, id |-> IdOf(email), email |-> email,
     hashed_password |-> hashed_password, is_active |-> is_active,
     is_verified |-> is_verified, is_superuser |-> FALSE]
NotFound == Raise(R2RException(404, "User not found"))

get_user_by_email(us, email) ==
    IF email \in DOMAIN us /\ us[email].exists
    THEN Return(us[email])
    ELSE NotFound

get_user_by_id(us, id) ==
    IF \E e \in DOMAIN us : us[e].exists /\ us[e].id = id
    THEN Return(us[CHOOSE e \in DOMAIN us : us[e].exists /\ us[e].id = id])
    ELSE NotFound

NoRecord == [c |-> "None"]
get_api_key_record(keys, key_id) ==
    IF \E k \in keys : k.public_key = key_id
    THEN CHOOSE k \in keys : k.public_key = key_id
    ELSE NoRecord

\* persists {publicId, hash, userId, name} under a record id of its own
store_user_api_key(keys, id, user_id, key_id, hashed_key, name) ==
    keys \cup {[c |-> "api_key", id |-> id, public_key |-> key_id,
                hashed_key |-> hashed_key, user_id |-> user_id,
                name |-> name]}

\* scoped to the owning user
delete_api_key(keys, user_id, id) ==
    {k \in keys : ~(k.id = id /\ k.user_id = user_id)}

\* scoped to the owning user
update_api_key_name(keys, user_id, id, name) ==
    {IF k.id = id /\ k.user_id = user_id THEN [k EXCEPT !.name = name] ELSE k :
         k \in keys}

\* whether a record of that id belongs to that user
\* the key records of a user
get_user_api_keys(keys, user_id) == {k \in keys : k.user_id = user_id}

has_api_key(keys, user_id, id) ==
    \E k \in keys : k.id = id /\ k.user_id = user_id

\* AlreadyExists: duplicate registration
AlreadyExists ==
    Raise(R2RException(409, "User with this email already exists"))

\* a new user is active and not verified
create_user(us, email, password, is_superuser) ==
    IF us[email].exists
    THEN [us |-> us, res |-> AlreadyExists]
    ELSE LET row == [UserRow(email, get_password_hash(password), TRUE, FALSE)
                        EXCEPT !.is_superuser = is_superuser]
         IN  [us |-> [us EXCEPT ![email] = row], res |-> Return(row)]

mark_user_as_superuser(us, id) ==
    [e \in DOMAIN us |->
        IF us[e].exists /\ us[e].id = id
        THEN [us[e] EXCEPT !.is_superuser = TRUE]
        ELSE us[e]]

mark_user_as_verified(us, id) ==
    [e \in DOMAIN us |->
        IF us[e].exists /\ us[e].id = id
        THEN [us[e] EXCEPT !.is_verified = TRUE]
        ELSE us[e]]

update_user_password(us, id, new_hashed_password) ==
    [e \in DOMAIN us |->
        IF us[e].exists /\ us[e].id = id
        THEN [us[e] EXCEPT !.hashed_password = new_hashed_password]
        ELSE us[e]]

\* at most one verification code per user: a new one supersedes the prior
store_verification_code(vcs, id, verification_code, expiry) ==
    {v \in vcs : v.id # id} \cup
    {[id |-> id, verification_code |-> verification_code,
      expiry |-> expiry]}

\* InvalidCode: no user is bound to the code
InvalidCode ==
    Raise(R2RException(404, "Invalid or expired verification code"))

\* the user ids a verification code resolves to at instant t
users_of_verification_code(vcs, verification_code, t) ==
    {v.id : v \in {w \in vcs : /\ w.verification_code = verification_code
                               /\ w.expiry > t}}

remove_verification_code(vcs, verification_code) ==
    {v \in vcs : v.verification_code # verification_code}

(***************************************************************************)
(* API Key Service.                                                        *)
(***************************************************************************)
\* f"{key_id}.{raw_api_key}"
CompositeKey(key_id, raw_api_key) == key_id \o <<Dot>> \o raw_api_key

\* str(api_key_uuid)
str_uuid(id) == <<[c |-> "uuid", n |-> id]>>

\* create_user_api_key with the cipher's n-th key id and the secret drawn;
\* the record id the store answers with is n
create_user_api_key(keys, n, user_id, secret, name) ==
    [keys |-> store_user_api_key(keys, n, user_id, KeyId(n),
                                 hash_api_key(RawKey(secret)), name),
     res |-> Return([api_key |-> CompositeKey(KeyId(n), RawKey(secret)),
                     key_id |-> str_uuid(n),
                     public_key |-> KeyId(n),
                     name |-> IF name \in {None, ""} THEN "" ELSE name])]

InvalidFormat == Raise(R2RException(401, "Invalid API key format"))
InvalidKey == Raise(R2RException(401, "Invalid API key"))
InactiveAccount == Raise(R2RException(401, "User account is inactive"))

\* a slip: the split is not guarded, so its ValueError escapes
authenticate_split_NoFormatGuard(api_key) ==
    SplitFirstDot(api_key)

\* authenticate_api_key up to its first await: key_id and raw_key
authenticate_split(api_key) ==
    IF ~SplitFirstDot(api_key).ok
    THEN InvalidFormat
    ELSE SplitFirstDot(api_key)

\* a slip: the raw secret is not verified against the stored hash
authenticate_record_NoSecretCheck(keys, parts) ==
    LET record == get_api_key_record(keys, parts[1])
    IN  IF record = NoRecord
        THEN InvalidKey
        ELSE Return(record)

\* authenticate_api_key at the await of get_api_key_record: the record of
\* the key id, its hash verified against the raw key
authenticate_record(keys, parts) ==
    LET record == get_api_key_record(keys, parts[1])
    IN  IF record = NoRecord
        THEN InvalidKey
        ELSE IF ~verify_api_key(parts[2], record.hashed_key)
        THEN InvalidKey
        ELSE Return(record)

\* authenticate_api_key at the await of get_user_by_id: the owner of the
\* record
authenticate_owner(us, user_id) ==
    LET row == get_user_by_id(us, user_id)
    IN  IF ~row.ok
        THEN row
        ELSE IF ~row.value.is_active
        THEN InactiveAccount
        ELSE row

\* authenticate_api_key when no other call runs between its awaits
authenticate_api_key(keys, us, api_key) ==
    LET parts == authenticate_split(api_key)
    IN  IF ~parts.ok
        THEN parts
        ELSE LET record == authenticate_record(keys, parts.value)
             IN  IF ~record.ok
                 THEN record
                 ELSE authenticate_owner(us, record.value.user_id)

(***************************************************************************)
(* Credential Resolver.                                                    *)
(***************************************************************************)
\* the try block of user() at the await of decode_token
user_decode(bl, token, t, cipherExpiry) ==
    LET token_data == decode_token(bl, token, t, cipherExpiry)
    IN  IF ~token_data.ok
        THEN token_data
        ELSE IF token_data.value.email = ""
        THEN Raise(R2RException(401, "Could not validate credentials"))
        ELSE token_data

(***************************************************************************)
(* Directory Store and Notifier for the password reset, modelled from the  *)
(* design document.                                                        *)
(***************************************************************************)
\* generateOneTimeCode() -> string
Code(n) == <<[c |-> "code", n |-> n]>>
Codes == {Code("c1"), Code("c2")}


\* at most one reset token per user: a new one supersedes the prior
store_reset_token(rts, id, reset_token, expiry) ==
    {r \in rts : r.id # id} \cup
    {[id |-> id, reset_token |-> reset_token, expiry |-> expiry]}

\* the user id a reset token resolves to at instant t, or None
NoUserId == 0
get_user_id_by_reset_token(rts, reset_token, t) ==
    IF \E r \in rts : r.reset_token = reset_token /\ r.expiry > t
    THEN (CHOOSE r \in rts : r.reset_token = reset_token /\ r.expiry > t).id
    ELSE NoUserId

remove_reset_token(rts, id) == {r \in rts : r.id # id}

send_password_reset_email(out, email, reset_token) ==
    out \cup {[kind |-> "password_reset", to |-> email,
               code |-> reset_token]}

(***************************************************************************)
(* Account Lifecycle Service.                                              *)
(***************************************************************************)
NoHash == [c |-> "None"]
IncorrectEmailOrPassword ==
    Raise(R2RException(401, "Incorrect email or password"))
EmailNotVerified == Raise(R2RException(401, "Email not verified"))

\* a slip: an unverified user is let in
login_NoVerificationCheck(us, cfg, email, password, t) ==
    LET row == get_user_by_email(us, email)
    IN  IF ~row.ok
        THEN row
        ELSE IF row.value.hashed_password = NoHash
        THEN Raise(HTTPException(500, "Invalid password hash in database"))
        ELSE IF verify_password_raises(row.value.hashed_password)
        THEN Raise(HTTPException(500, "Error during password verification"))
        ELSE IF ~verify_password(password, row.value.hashed_password)
        THEN IncorrectEmailOrPassword
        ELSE Return(
            [access_token |->
                 create_access_token([sub |-> row.value.email], t),
             refresh_token |->
                 create_refresh_token([sub |-> row.value.email], t)])

login(us, cfg, email, password, t) ==
    LET row == get_user_by_email(us, email)
    IN  IF ~row.ok
        THEN row
        ELSE IF row.value.hashed_password = NoHash
        THEN Raise(HTTPException(500, "Invalid password hash in database"))
        ELSE IF verify_password_raises(row.value.hashed_password)
        THEN Raise(HTTPException(500, "Error during password verification"))
        ELSE IF ~verify_password(password, row.value.hashed_password)
        THEN IncorrectEmailOrPassword
        ELSE IF ~row.value.is_verified /\ cfg.require_email_verification
        THEN EmailNotVerified
        ELSE Return(
            [access_token |->
                 create_access_token([sub |-> row.value.email], t),
             refresh_token |->
                 create_refresh_token([sub |-> row.value.email], t)])

GenericResetMessage ==
    Return("If the email exists, a reset link has been sent")

\* a slip: the except clause re-raises whatever it caught
reset_except_NoAbsorb(r) == r

\* the except clause of request_password_reset on the outcome `r` of the
\* try block: an R2RException with status 404 becomes the generic message,
\* any other exception is raised again
reset_except(r) ==
    IF IsR2RException(r) /\ r.error.status_code = 404
    THEN GenericResetMessage
    ELSE r

\* str(-1): the code stored when no verification is required
SentinelCode == <<Lit("-1")>>

send_verification_email(out, email, verification_code) ==
    out \cup {[kind |-> "verification", to |-> email,
               code |-> verification_code]}

EmailVerified == Return("Email verified successfully")

WrongPassword == Raise(R2RException(400, "Incorrect current password"))

\* a slip: the current password is not checked
change_password_NoCheck(us, row, current_password, new_password) ==
    [us |-> update_user_password(us, row.id,
                                 get_password_hash(new_password)),
     res |-> Return("Password changed successfully")]

\* change_password: `row` is the User object the caller passes
change_password(us, row, current_password, new_password) ==
    IF row.hashed_password = NoHash
    THEN [us |-> us,
          res |-> Raise(HTTPException(500,
                            "Invalid password hash in database"))]
    ELSE IF verify_password_raises(row.hashed_password)
    THEN [us |-> us, res |-> Raise(Fault("ValueError"))]
    ELSE IF ~verify_password(current_password, row.hashed_password)
    THEN [us |-> us, res |-> WrongPassword]
    ELSE [us |-> update_user_password(us, row.id,
                                      get_password_hash(new_password)),
          res |-> Return("Password changed successfully")]

InvalidOrExpiredToken ==
    Raise(R2RException(400, "Invalid or expired reset token"))
PasswordReset == Return("Password reset successfully")

\* confirm_password_reset up to its first store write: the user id the
\* token resolves to, or the failure
confirm_lookup(rts, reset_token, t) ==
    LET user_id == get_user_id_by_reset_token(rts, reset_token, t)
    IN  IF user_id = NoUserId
        THEN InvalidOrExpiredToken
        ELSE Return(user_id)

(***************************************************************************)
(* Strings a caller may present that the provider never issued.            *)
(***************************************************************************)
Junk == <<Lit("junk")>>
Forged ==
    <<Lit("hdr"), Dot, Claims("a@x.com", "refresh", MaxTime), Dot,
      Signature("attacker")>>
ForeignTokens == {Forged}

TokenInputs == issued \cup ForeignTokens

Idle == [pc |-> "idle"]
\* ret when the latest step did not complete a call (construction, a clock
\* tick, a call reaching an await)
NoCall == [op |-> "none"]
Procs == {1, 2}

\* a call starts in the lowest coroutine slot that is free
Free(p) == co[p] = Idle /\ \A q \in Procs : q < p => co[q] # Idle

\* the slot of a call when one call of its kind is in flight at a time
Single == {1}

\* the call of slot p is suspended at its next await
Suspend(p, frame) ==
    /\ co' = [co EXCEPT ![p] = frame]
    /\ ret' = NoCall

\* the call of slot p returns or raises
Returns(p, call) ==
    /\ co' = [co EXCEPT ![p] = Idle]
    /\ ret' = call

\* the one-time codes the cipher has drawn and that are still known
\* somewhere: generate_verification_code does not draw one of them again
DrawnCodes ==
    {r.reset_token : r \in resetTokens}
    \cup {v.verification_code : v \in verificationCodes}
    \cup {m.code : m \in outbox}
    \cup {co[p].code : p \in {q \in Procs : "code" \in DOMAIN co[q]}}
    \cup redeemed

(***************************************************************************)
(* Token Service.  A call that awaits the Directory Store more than once   *)
(* is a coroutine: one step per await, other calls running in between.     *)
(***************************************************************************)
InitStore ==
    /\ users = [e \in Emails |-> [exists |-> FALSE]]
    /\ apiKeys = {}
    /\ issuedKeys = {}
    /\ verificationCodes = {}
    /\ resetTokens = {}
    /\ outbox = {}
    /\ config = [require_email_verification |-> FALSE]

Init ==
    /\ now = 0
    /\ blacklist = {}
    /\ issued = {}
    /\ revoked = {}
    /\ redeemed = {}
    /\ InitStore
    /\ co = [p \in Procs |-> Idle]
    /\ ret = NoCall

CreateAccessToken(s) ==
    LET tok == create_access_token([sub |-> s], now)
    IN  /\ Cardinality(issued \cup {tok}) <= MaxIssued
        /\ issued' = issued \cup {tok}
        /\ ret' = [op |-> "create_access_token", arg |-> s,
                   res |-> Return(tok)]
        /\ UNCHANGED <<now, blacklist, revoked, redeemed, storeVars, co>>

CreateRefreshToken(s) ==
    LET tok == create_refresh_token([sub |-> s], now)
    IN  /\ Cardinality(issued \cup {tok}) <= MaxIssued
        /\ issued' = issued \cup {tok}
        /\ ret' = [op |-> "create_refresh_token", arg |-> s,
                   res |-> Return(tok)]
        /\ UNCHANGED <<now, blacklist, revoked, redeemed, storeVars, co>>

DecodeToken(token, cipherExpiry) ==
    /\ ret' = [op |-> "decode_token", arg |-> token,
               cipherExpiry |-> cipherExpiry,
               res |-> decode_token(blacklist, token, now, cipherExpiry)]
    /\ UNCHANGED <<tokenVars, storeVars, co>>

\* what a refresh_access_token call leaves in ret.  `again`: the call was
\* made directly after a refresh of the same token had returned a pair;
\* `replay`: a pair has been returned for the token before;
\* blacklist_before, issued_before: the blacklist and the tokens handed out
\* before the call's last step
RefreshCall(token, res, write_fault, again) ==
    [op |-> "refresh_access_token", arg |-> token, res |-> res,
     write_fault |-> write_fault,
     blacklist_before |-> blacklist, issued_before |-> issued,
     again |-> again, replay |-> token \in redeemed]

\* a slip: the presented token is blacklisted before its kind is checked
RefreshBegin_BlacklistFirst(p, token, cipherExpiry) ==
    LET d == decode_token(blacklist, token, now, cipherExpiry)
        c == refresh_check(d)
        again == /\ ret.op = "refresh_access_token"
                 /\ ret.arg = token
                 /\ ret.res.ok
    IN  /\ Free(p)
        /\ IF c.ok
           THEN Suspend(p, [pc |-> "blacklist_token", token |-> token,
                            token_data |-> c.value, again |-> again])
           ELSE Returns(p, RefreshCall(token, c, NoFault, again))
        /\ blacklist' = IF d.ok THEN blacklist_token(blacklist, token)
                        ELSE blacklist
        /\ revoked' = revoked \cup (blacklist' \ blacklist)
        /\ UNCHANGED <<now, issued, redeemed, storeVars>>

\* refresh_access_token to its await of blacklist_token: the awaited
\* decode_token and the kind check
RefreshBegin(p, token, cipherExpiry) ==
    LET c == refresh_check(decode_token(blacklist, token, now, cipherExpiry))
        again == /\ ret.op = "refresh_access_token"
                 /\ ret.arg = token
                 /\ ret.res.ok
    IN  /\ Free(p)
        /\ IF c.ok
           THEN Suspend(p, [pc |-> "blacklist_token", token |-> token,
                            token_data |-> c.value, again |-> again])
           ELSE Returns(p, RefreshCall(token, c, NoFault, again))
        /\ UNCHANGED <<tokenVars, storeVars>>

\* refresh_access_token from its await of blacklist_token: the write, the
\* new pair, the return
RefreshFinish(p, write_fault) ==
    /\ co[p].pc = "blacklist_token"
    /\ LET r == refresh_rotate(co[p].token_data, blacklist, co[p].token, now,
                               write_fault)
           new == IF r.res.ok
                  THEN {r.res.value.access_token, r.res.value.refresh_token}
                  ELSE {}
       IN  /\ blacklist' = r.bl
           /\ revoked' = revoked \cup (r.bl \ blacklist)
           /\ redeemed' = IF r.res.ok THEN redeemed \cup {co[p].token}
                          ELSE redeemed
           /\ \E keep \in SUBSET new :
                  /\ Cardinality(issued \cup keep) <= MaxIssued
                  /\ issued' = issued \cup keep
           /\ Returns(p, RefreshCall(co[p].token, r.res, write_fault,
                                     co[p].again))
    /\ UNCHANGED <<now, storeVars>>

\* a slip: the write replaces the blacklist by the one token
Logout_Overwrite(token) ==
    /\ blacklist' = {token}
    /\ revoked' = revoked \cup {token}
    /\ ret' = [op |-> "logout", arg |-> token,
               res |-> Return("Logged out successfully")]
    /\ UNCHANGED <<now, issued, redeemed, storeVars, co>>

Logout(token) ==
    /\ blacklist' = blacklist_token(blacklist, token)
    /\ revoked' = revoked \cup {token}
    /\ ret' = [op |-> "logout", arg |-> token,
               res |-> Return("Logged out successfully")]
    /\ UNCHANGED <<now, issued, redeemed, storeVars, co>>

CleanExpiredBlacklistedTokens ==
    /\ blacklist' = store_clean_expired_blacklisted_tokens(blacklist, now)
    /\ ret' = [op |-> "clean_expired_blacklisted_tokens", arg |-> <<>>,
               res |-> Return(None)]
    /\ UNCHANGED <<now, issued, revoked, redeemed, storeVars, co>>

\* the clock advances, up to the instant `last`
TickTo(last) ==
    /\ now < last
    /\ now' = now + 1
    /\ ret' = NoCall
    /\ UNCHANGED <<blacklist, issued, revoked, redeemed, storeVars, co>>

Tick == TickTo(MaxTime)

\* The Token Service does not look at the subject of a refresh token:
\* access tokens are made for every subject, refresh tokens for one.
Next ==
    \/ \E s \in Emails : CreateAccessToken(s)
    \/ CreateRefreshToken("a@x.com")
    \/ \E t \in TokenInputs, ce \in BOOLEAN : DecodeToken(t, ce)
    \/ \E p \in Single, t \in TokenInputs, ce \in BOOLEAN :
           RefreshBegin(p, t, ce)
    \/ \E p \in Single : RefreshFinish(p, NoFault)
    \/ \E t \in TokenInputs : Logout(t)
    \/ CleanExpiredBlacklistedTokens
    \/ Tick

Spec == Init /\ [][Next]_vars

(***************************************************************************)
(* Token Service: two refresh_access_token calls in flight.                *)
(***************************************************************************)
NextConc ==
    \/ \E s \in Emails : CreateRefreshToken(s)
    \/ \E p \in Procs, t \in TokenInputs, ce \in BOOLEAN :
           RefreshBegin(p, t, ce)
    \/ \E p \in Procs : RefreshFinish(p, NoFault)
    \/ \E t \in TokenInputs : Logout(t)
    \/ Tick

SpecConc == Init /\ [][NextConc]_vars

(***************************************************************************)
(* decode_token on the strings a caller may present: unsigned text, and    *)
(* tokens with any subject, kind and expiry, each present or missing,      *)
(* signed by the server or by someone else.  The call is made at any       *)
(* instant, with nothing blacklisted or with one string blacklisted by a   *)
(* logout.                                                                 *)
(***************************************************************************)
DecodeInputs ==
    {Junk} \cup
    {<<Lit("hdr"), Dot, Claims(sub, token_type, exp), Dot, Signature(by)>> :
         sub \in {None, "a@x.com"},
         token_type \in {None} \cup TokenTypes,
         exp \in {NoExp} \cup (0..MaxTime),
         by \in {"server", "attacker"}}

InitDecode ==
    /\ now \in 0..MaxTime
    /\ blacklist \in {{}} \cup {{tok} : tok \in DecodeInputs}
    /\ issued = {}
    /\ revoked = blacklist
    /\ redeemed = {}
    /\ InitStore
    /\ co = [p \in Procs |-> Idle]
    /\ ret = NoCall

NextDecode ==
    \E tok \in DecodeInputs, ce \in BOOLEAN : DecodeToken(tok, ce)

SpecDecode == InitDecode /\ [][NextDecode]_vars

(***************************************************************************)
(* Token Service with the sweep, on tokens made for a subject and on       *)
(* tokens made from data without "sub" (create_access_token({})).  The     *)
(* clock runs one instant further, past the expiry of a refresh token.     *)
(***************************************************************************)
Subjects == {"a@x.com", None}

NextSweep ==
    \/ \E s \in Subjects : CreateAccessToken(s)
    \/ \E s \in Subjects : CreateRefreshToken(s)
    \/ \E t \in issued, ce \in BOOLEAN : DecodeToken(t, ce)
    \/ \E p \in Single, t \in issued, ce \in BOOLEAN : RefreshBegin(p, t, ce)
    \/ \E p \in Single : RefreshFinish(p, NoFault)
    \/ \E t \in issued : Logout(t)
    \/ CleanExpiredBlacklistedTokens
    \/ TickTo(MaxTime + 1)

SpecSweep == Init /\ [][NextSweep]_vars

(***************************************************************************)
(* Token Service: rotation with a Directory Store whose blacklist write    *)
(* may fail.                                                               *)
(***************************************************************************)
NextRotate ==
    \/ \E s \in Emails : CreateAccessToken(s)
    \/ \E s \in Emails : CreateRefreshToken(s)
    \/ \E p \in Procs, t \in TokenInputs, ce \in BOOLEAN :
           RefreshBegin(p, t, ce)
    \/ \E p \in Procs, wf \in {NoFault} \cup CollaboratorFaults :
           RefreshFinish(p, wf)
    \/ Tick

SpecRotate == Init /\ [][NextRotate]_vars

(***************************************************************************)
(* Credential Resolver and API Key Service.  The user table is the one     *)
(* the Directory Store holds when the calls begin: each email has no user, *)
(* an active user or an inactive user (no operation of the provider        *)
(* changes the active flag).  The credentials are those of one user, who   *)
(* is missing, active or inactive: an access token made at instant 0 and   *)
(* the API keys issued to the user.  user and authenticate_api_key write   *)
(* nothing, so one such call is in flight at a time, interleaved with the  *)
(* calls that write, and a run is followed up to the return of its first   *)
(* resolver call (Quiet).                                                  *)
(***************************************************************************)
UserTables ==
    {us \in [Emails -> {NoUser} \cup
                        {UserRow(e, get_password_hash("pw1"), a, TRUE) :
                             e \in Emails, a \in BOOLEAN}] :
        \A e \in Emails : us[e] = NoUser \/ us[e].email = e}

\* the strings a caller presents: tokens, composite keys with an issued or
\* an unknown key id and any secret, other text; each also behind "Bearer "
BareCredentials ==
    issued \cup {Forged, Junk} \cup
    {CompositeKey(KeyId(n), RawKey(secret)) :
         n \in 0..MaxKeys, secret \in Secrets}
Credentials ==
    BareCredentials \cup {<<BearerPrefix>> \o c : c \in BareCredentials}

InitResolver ==
    /\ now = 0
    /\ blacklist = {}
    /\ issued = {create_access_token([sub |-> "a@x.com"], 0)}
    /\ revoked = {}
    /\ redeemed = {}
    /\ users \in UserTables
    /\ apiKeys = {}
    /\ issuedKeys = {}
    /\ verificationCodes = {}
    /\ resetTokens = {}
    /\ outbox = {}
    /\ config = [require_email_verification |-> FALSE]
    /\ co = [p \in Procs |-> Idle]
    /\ ret = NoCall

\* keys_before: the key records when the call was made
CreateUserApiKey(user_id, secret, name) ==
    LET n == Cardinality(issuedKeys) + 1
        r == create_user_api_key(apiKeys, n, user_id, secret, name)
    IN  /\ apiKeys' = r.keys
        /\ issuedKeys' = issuedKeys \cup
               {[user_id |-> user_id, secret |-> secret,
                 api_key |-> r.res.value.api_key,
                 key_id |-> r.res.value.key_id,
                 public_key |-> r.res.value.public_key]}
        /\ ret' = [op |-> "create_user_api_key", arg |-> <<user_id, name>>,
                   res |-> r.res, keys_before |-> apiKeys]
        /\ UNCHANGED <<tokenVars, users, verificationCodes, resetTokens,
                       outbox, config, co>>

\* a slip: the delete is scoped to the user only
DeleteUserApiKey_AllOfUser(user_id, id) ==
    /\ apiKeys' = {k \in apiKeys : k.user_id # user_id}
    /\ ret' = [op |-> "delete_user_api_key", arg |-> <<user_id, id>>,
               res |-> Return(apiKeys' # apiKeys), keys_before |-> apiKeys]
    /\ UNCHANGED <<tokenVars, users, issuedKeys, verificationCodes,
                   resetTokens, outbox, config, co>>

DeleteUserApiKey(user_id, id) ==
    /\ apiKeys' = delete_api_key(apiKeys, user_id, id)
    /\ ret' = [op |-> "delete_user_api_key", arg |-> <<user_id, id>>,
               res |-> Return(has_api_key(apiKeys, user_id, id)),
               keys_before |-> apiKeys]
    /\ UNCHANGED <<tokenVars, users, issuedKeys, verificationCodes,
                   resetTokens, outbox, config, co>>

ListUserApiKeys(user_id) ==
    /\ ret' = [op |-> "list_user_api_keys", arg |-> user_id,
               res |-> Return(get_user_api_keys(apiKeys, user_id))]
    /\ UNCHANGED <<tokenVars, storeVars, co>>

RenameApiKey(user_id, id, new_name) ==
    /\ apiKeys' = update_api_key_name(apiKeys, user_id, id, new_name)
    /\ ret' = [op |-> "rename_api_key", arg |-> <<user_id, id, new_name>>,
               res |-> Return(has_api_key(apiKeys, user_id, id)),
               keys_before |-> apiKeys]
    /\ UNCHANGED <<tokenVars, users, issuedKeys, verificationCodes,
                   resetTokens, outbox, config, co>>

\* authenticate_api_key to its await of get_user_by_id: the split, the
\* awaited get_api_key_record, the secret
AuthenticateBegin(p, api_key) ==
    LET call == [op |-> "authenticate_api_key", arg |-> api_key,
                 res |-> None]
        parts == authenticate_split(api_key)
        record == authenticate_record(apiKeys, parts.value)
    IN  /\ Free(p)
        /\ IF ~parts.ok
           THEN Returns(p, [call EXCEPT !.res = parts])
           ELSE IF ~record.ok
           THEN Returns(p, [call EXCEPT !.res = record])
           ELSE Suspend(p, [pc |-> "get_user_by_id", call |-> call,
                            user_id |-> record.value.user_id])
        /\ UNCHANGED <<tokenVars, storeVars>>

\* authenticate_api_key, called directly or by user(), from its await of
\* get_user_by_id
AuthenticateOwner(p) ==
    /\ co[p].pc = "get_user_by_id"
    /\ Returns(p, [co[p].call EXCEPT
                       !.res = authenticate_owner(users, co[p].user_id)])
    /\ UNCHANGED <<tokenVars, storeVars>>

\* the except clause of user(): authenticate_api_key on the token without
\* its "Bearer " prefix, to the await of get_api_key_record
UserFallback(p, call) ==
    LET parts == authenticate_split(RemoveBearerPrefix(call.arg))
    IN  IF ~parts.ok
        THEN Returns(p, [call EXCEPT !.res = parts])
        ELSE Suspend(p, [pc |-> "get_api_key_record", call |-> call,
                         parts |-> parts.value])

\* user() to its await of get_user_by_email, or into the except clause;
\* token_res: what decode_token answered
UserBegin(p, token, cipherExpiry) ==
    LET token_data == user_decode(blacklist, token, now, cipherExpiry)
        call == [op |-> "user", arg |-> token, res |-> None,
                 token_res |-> decode_token(blacklist, token, now,
                                            cipherExpiry)]
    IN  /\ Free(p)
        /\ IF token_data.ok
           THEN Suspend(p, [pc |-> "get_user_by_email", call |-> call,
                            email |-> token_data.value.email])
           ELSE IF IsR2RException(token_data)
           THEN UserFallback(p, call)
           ELSE Returns(p, [call EXCEPT !.res = token_data])
        /\ UNCHANGED <<tokenVars, storeVars>>

\* user() from its await of get_user_by_email
UserByEmail(p) ==
    /\ co[p].pc = "get_user_by_email"
    /\ LET row == get_user_by_email(users, co[p].email)
       IN  IF row.ok
           THEN Returns(p, [co[p].call EXCEPT !.res = row])
           ELSE IF IsR2RException(row)
           THEN UserFallback(p, co[p].call)
           ELSE Returns(p, [co[p].call EXCEPT !.res = row])
    /\ UNCHANGED <<tokenVars, storeVars>>

\* the API key attempt of user() from its await of get_api_key_record
UserKeyRecord(p) ==
    /\ co[p].pc = "get_api_key_record"
    /\ LET record == authenticate_record(apiKeys, co[p].parts)
       IN  IF ~record.ok
           THEN Returns(p, [co[p].call EXCEPT !.res = record])
           ELSE Suspend(p, [pc |-> "get_user_by_id", call |-> co[p].call,
                            user_id |-> record.value.user_id])
    /\ UNCHANGED <<tokenVars, storeVars>>

Quiet == ret.op \notin {"user", "authenticate_api_key"}

NextResolver ==
    \/ \E t \in issued : Quiet /\ Logout(t)
    \/ Quiet /\ Tick
    \/ \E secret \in Secrets :
           /\ Quiet
           /\ Cardinality(issuedKeys) < MaxKeys
           /\ CreateUserApiKey(IdOf("a@x.com"), secret, "ci")
    \/ \E u \in UserIds, id \in 1..MaxKeys :
           Quiet /\ DeleteUserApiKey(u, id)
    \/ \E p \in Single, c \in Credentials :
           Quiet /\ AuthenticateBegin(p, c)
    \/ \E p \in Single, c \in Credentials, ce \in BOOLEAN :
           Quiet /\ UserBegin(p, c, ce)
    \/ \E p \in Single : Quiet /\ UserByEmail(p)
    \/ \E p \in Single : Quiet /\ UserKeyRecord(p)
    \/ \E p \in Single : Quiet /\ AuthenticateOwner(p)

SpecResolver == InitResolver /\ [][NextResolver]_vars

(***************************************************************************)
(* API Key Service: keys issued with and without a name, renamed, deleted  *)
(* and presented, on the user tables of the Directory Store.  The secrets  *)
(* are drawn in SpecResolver; here every key has the same one.             *)
(***************************************************************************)
InitKeys ==
    /\ now = 0
    /\ blacklist = {}
    /\ issued = {}
    /\ revoked = {}
    /\ redeemed = {}
    /\ users \in UserTables
    /\ apiKeys = {}
    /\ issuedKeys = {}
    /\ verificationCodes = {}
    /\ resetTokens = {}
    /\ outbox = {}
    /\ config = [require_email_verification |-> FALSE]
    /\ co = [p \in Procs |-> Idle]
    /\ ret = NoCall

\* the names a caller gives: a name, or none (the default of the parameter)
KeyNames == {"ci", None}

NextKeys ==
    \/ \E u \in UserIds, name \in KeyNames :
           /\ Cardinality(issuedKeys) < MaxSameNameKeys
           /\ CreateUserApiKey(u, "s1", name)
    \/ \E u \in UserIds, id \in 1..MaxSameNameKeys : DeleteUserApiKey(u, id)
    \/ \E u \in UserIds, id \in 1..MaxSameNameKeys :
           RenameApiKey(u, id, "prod")
    \/ \E u \in UserIds : ListUserApiKeys(u)
    \/ \E p \in Single, k \in issuedKeys : AuthenticateBegin(p, k.api_key)
    \/ \E p \in Single : AuthenticateOwner(p)

SpecKeys == InitKeys /\ [][NextKeys]_vars

(***************************************************************************)
(* Account Lifecycle Service: login, the password reset request and the    *)
(* resending of the verification email, on the user tables of the          *)
(* Directory Store.  One request is in flight at a time, with logins       *)
(* between its awaits; requests in flight together are in SpecReset.  The  *)
(* store may also hold a user whose hashed_password is damaged: not a str, *)
(* or a str that is no hash.                                               *)
(***************************************************************************)
DamagedTables ==
    {[us EXCEPT !["a@x.com"].hashed_password = h] :
         us \in {u \in UserTables :
                    u["a@x.com"].exists /\ ~u["b@x.com"].exists},
         h \in {NoHash, MalformedHash}}

InitAccount ==
    /\ now = 0
    /\ blacklist = {}
    /\ issued = {}
    /\ revoked = {}
    /\ redeemed = {}
    /\ users \in UserTables \cup DamagedTables
    /\ apiKeys = {}
    /\ issuedKeys = {}
    /\ verificationCodes = {}
    /\ resetTokens = {}
    /\ outbox = {}
    /\ config \in [require_email_verification : BOOLEAN]
    /\ co = [p \in Procs |-> Idle]
    /\ ret = NoCall

Login(email, password) ==
    LET r == login(users, config, email, password, now)
        new == IF r.ok THEN {r.value.access_token, r.value.refresh_token}
               ELSE {}
    IN  /\ \E keep \in SUBSET new :
               /\ Cardinality(issued \cup keep) <= MaxIssued
               /\ issued' = issued \cup keep
        /\ ret' = [op |-> "login", arg |-> <<email, password>>, res |-> r]
        /\ UNCHANGED <<now, blacklist, revoked, redeemed, storeVars, co>>

\* request_password_reset to its await of store_reset_token: the awaited
\* get_user_by_email, the drawing of the reset token and the reading of the
\* clock for its expiry (timedelta(hours=1), one tick here).  store_fault,
\* mail_fault: what the later awaits raised
RequestBegin(p, email, reset_token) ==
    LET row == get_user_by_email(users, email)
        call == [op |-> "request_password_reset", arg |-> email,
                 res |-> None, store_fault |-> NoFault,
                 mail_fault |-> NoFault]
    IN  /\ Free(p)
        /\ IF row.ok
           THEN /\ reset_token \notin DrawnCodes
                /\ Suspend(p, [pc |-> "store_reset_token", call |-> call,
                               user |-> row.value, code |-> reset_token,
                               expiry |-> now + 1])
           ELSE Returns(p, [call EXCEPT !.res = reset_except(row)])
        /\ UNCHANGED <<tokenVars, storeVars>>

\* request_password_reset from its await of store_reset_token to that of
\* send_password_reset_email
RequestStore(p, store_fault) ==
    /\ co[p].pc = "store_reset_token"
    /\ IF store_fault # NoFault
       THEN /\ Returns(p, [co[p].call EXCEPT
                               !.res = reset_except(store_fault),
                               !.store_fault = store_fault])
            /\ UNCHANGED resetTokens
       ELSE /\ resetTokens' = store_reset_token(resetTokens, co[p].user.id,
                                                co[p].code, co[p].expiry)
            /\ Suspend(p, [pc |-> "send_password_reset_email",
                           call |-> co[p].call, code |-> co[p].code])
    /\ UNCHANGED <<tokenVars, users, apiKeys, issuedKeys, verificationCodes,
                   outbox, config>>

\* request_password_reset from its await of send_password_reset_email
RequestMail(p, mail_fault) ==
    /\ co[p].pc = "send_password_reset_email"
    /\ IF mail_fault # NoFault
       THEN /\ Returns(p, [co[p].call EXCEPT
                               !.res = reset_except(mail_fault),
                               !.mail_fault = mail_fault])
            /\ UNCHANGED outbox
       ELSE /\ outbox' = send_password_reset_email(outbox, co[p].call.arg,
                                                   co[p].code)
            /\ Returns(p, [co[p].call EXCEPT
                               !.res = reset_except(GenericResetMessage)])
    /\ UNCHANGED <<tokenVars, users, apiKeys, issuedKeys, verificationCodes,
                   resetTokens, config>>

\* f"Verification email sent successfully to {email}"
resend_message(email) ==
    <<"Verification email sent successfully to ", email>>

\* send_reset_email to its await of store_verification_code: the awaited
\* get_user_by_email, the drawing of the code and the reading of the clock
\* for its expiry (timedelta(hours=24), one tick here)
ResendBegin(p, email, verification_code) ==
    LET row == get_user_by_email(users, email)
        call == [op |-> "send_reset_email", arg |-> email, res |-> None]
    IN  /\ Free(p)
        /\ IF row.ok
           THEN /\ verification_code \notin DrawnCodes
                /\ Suspend(p, [pc |-> "resend_store_verification_code",
                               call |-> call, user |-> row.value,
                               code |-> verification_code,
                               expiry |-> now + 1])
           ELSE Returns(p, [call EXCEPT !.res = row])
        /\ UNCHANGED <<tokenVars, storeVars>>

\* send_reset_email from its await of store_verification_code to that of
\* send_verification_email
ResendStore(p) ==
    /\ co[p].pc = "resend_store_verification_code"
    /\ verificationCodes' =
           store_verification_code(verificationCodes, co[p].user.id,
                                   co[p].code, co[p].expiry)
    /\ Suspend(p, [pc |-> "resend_send_verification_email",
                   call |-> co[p].call, code |-> co[p].code,
                   expiry |-> co[p].expiry])
    /\ UNCHANGED <<tokenVars, users, apiKeys, issuedKeys, resetTokens,
                   outbox, config>>

\* send_reset_email from its await of send_verification_email
ResendMail(p) ==
    /\ co[p].pc = "resend_send_verification_email"
    /\ outbox' = send_verification_email(outbox, co[p].call.arg, co[p].code)
    /\ Returns(p, [co[p].call EXCEPT
                       !.res = Return([verification_code |-> co[p].code,
                                       expiry |-> co[p].expiry,
                                       message |-> resend_message(
                                                       co[p].call.arg)])])
    /\ UNCHANGED <<tokenVars, users, apiKeys, issuedKeys, verificationCodes,
                   resetTokens, config>>

NextAccount ==
    \/ \E e \in Emails, pw \in Passwords : Login(e, pw)
    \/ \E p \in Single, e \in Emails, code \in Codes :
           RequestBegin(p, e, code)
    \/ \E p \in Single, sf \in {NoFault} \cup CollaboratorFaults :
           RequestStore(p, sf)
    \/ \E p \in Single, mf \in {NoFault} \cup CollaboratorFaults :
           RequestMail(p, mf)
    \/ \E p \in Single, e \in Emails, code \in Codes :
           ResendBegin(p, e, code)
    \/ \E p \in Single : ResendStore(p)
    \/ \E p \in Single : ResendMail(p)

SpecAccount == InitAccount /\ [][NextAccount]_vars

(***************************************************************************)
(* Account Lifecycle Service: the admin bootstrap, registration, email     *)
(* verification and login, from an empty user table.  One registration is  *)
(* in flight at a time, together with verify_email calls.  The codes       *)
(* presented to verify_email are those a mail has carried, the sentinel,   *)
(* and a code that was never drawn.                                        *)
(***************************************************************************)
InitLifecycle ==
    /\ now = 0
    /\ blacklist = {}
    /\ issued = {}
    /\ revoked = {}
    /\ redeemed = {}
    /\ users = [e \in Emails |-> NoUser]
    /\ apiKeys = {}
    /\ issuedKeys = {}
    /\ verificationCodes = {}
    /\ resetTokens = {}
    /\ outbox = {}
    /\ config \in [require_email_verification : BOOLEAN]
    /\ co = [p \in Procs |-> Idle]
    /\ ret = NoCall

\* self.admin_email, self.admin_password
AdminEmail == "a@x.com"
AdminPassword == "pw1"

\* register, called directly (op "register") or by initialize (op
\* "initialize"), to its await of create_collection: the awaited
\* create_user.  initialize swallows the R2RException of register.
RegisterCall(p, op, email, password, is_superuser) ==
    LET r == create_user(users, email, password, is_superuser)
        call == [op |-> op, arg |-> <<email, password>>, res |-> None]
    IN  /\ Free(p)
        /\ users' = r.us
        /\ IF r.res.ok
           THEN Suspend(p, [pc |-> "create_collection", call |-> call,
                            new_user |-> r.res.value])
           ELSE IF op = "initialize" /\ IsR2RException(r.res)
           THEN Returns(p, [call EXCEPT !.res = Return(None)])
           ELSE Returns(p, [call EXCEPT !.res = r.res])
        /\ UNCHANGED <<tokenVars, apiKeys, issuedKeys, verificationCodes,
                       resetTokens, outbox, config>>

RegisterBegin(p, email, password) ==
    RegisterCall(p, "register", email, password, FALSE)

InitializeBegin(p) ==
    RegisterCall(p, "initialize", AdminEmail, AdminPassword, TRUE)

\* register from its await of create_collection to that of
\* add_user_to_collection: the awaits of create_collection and
\* graphs_handler.create, one step each, on tables that are not part of
\* this model
RegisterCollection(p) ==
    /\ co[p].pc \in {"create_collection", "create_graph"}
    /\ Suspend(p, [co[p] EXCEPT
                       !.pc = IF co[p].pc = "create_collection"
                              THEN "create_graph"
                              ELSE "add_user_to_collection"])
    /\ UNCHANGED <<tokenVars, storeVars>>

\* register from its await of add_user_to_collection to that of
\* store_verification_code: the test of the configuration, the code (drawn,
\* or the sentinel) and the reading of the clock for its expiry.  The
\* expiry of a drawn code is timedelta(hours=24), one tick here; that of
\* the sentinel, timedelta(hours=366 * 10), is MaxTime + 1 ticks.
RegisterAddUser(p, verification_code) ==
    /\ co[p].pc = "add_user_to_collection"
    /\ IF config.require_email_verification
       THEN /\ verification_code \notin DrawnCodes
            /\ Suspend(p, [pc |-> "store_verification_code",
                           call |-> co[p].call, new_user |-> co[p].new_user,
                           required |-> TRUE, code |-> verification_code,
                           expiry |-> now + 1])
       ELSE Suspend(p, [pc |-> "store_verification_code",
                        call |-> co[p].call, new_user |-> co[p].new_user,
                        required |-> FALSE, code |-> SentinelCode,
                        expiry |-> now + MaxTime + 1])
    /\ UNCHANGED <<tokenVars, storeVars>>

\* register from its await of store_verification_code to that of
\* send_verification_email or of mark_user_as_verified
RegisterStoreCode(p) ==
    /\ co[p].pc = "store_verification_code"
    /\ verificationCodes' =
           store_verification_code(verificationCodes, co[p].new_user.id,
                                   co[p].code, co[p].expiry)
    /\ IF co[p].required
       THEN Suspend(p, [pc |-> "send_verification_email",
                        call |-> co[p].call, new_user |-> co[p].new_user,
                        code |-> co[p].code])
       ELSE Suspend(p, [pc |-> "mark_user_as_verified",
                        call |-> co[p].call, new_user |-> co[p].new_user])
    /\ UNCHANGED <<tokenVars, users, apiKeys, issuedKeys, resetTokens,
                   outbox, config>>

\* the return of register: the row create_user returned, to the caller, or
\* on to initialize's await of mark_user_as_superuser
RegisterReturn(p) ==
    IF co[p].call.op = "initialize"
    THEN Suspend(p, [pc |-> "mark_user_as_superuser", call |-> co[p].call,
                     new_user |-> co[p].new_user])
    ELSE Returns(p, [co[p].call EXCEPT !.res = Return(co[p].new_user)])

\* register from its await of send_verification_email
RegisterMail(p) ==
    /\ co[p].pc = "send_verification_email"
    /\ outbox' = send_verification_email(outbox, co[p].new_user.email,
                                         co[p].code)
    /\ RegisterReturn(p)
    /\ UNCHANGED <<tokenVars, users, apiKeys, issuedKeys, verificationCodes,
                   resetTokens, config>>

\* register from its await of mark_user_as_verified
RegisterMarkVerified(p) ==
    /\ co[p].pc = "mark_user_as_verified"
    /\ users' = mark_user_as_verified(users, co[p].new_user.id)
    /\ RegisterReturn(p)
    /\ UNCHANGED <<tokenVars, apiKeys, issuedKeys, verificationCodes,
                   resetTokens, outbox, config>>

\* initialize from its await of mark_user_as_superuser
InitializeFinish(p) ==
    /\ co[p].pc = "mark_user_as_superuser"
    /\ users' = mark_user_as_superuser(users, co[p].new_user.id)
    /\ Returns(p, [co[p].call EXCEPT !.res = Return(None)])
    /\ UNCHANGED <<tokenVars, apiKeys, issuedKeys, verificationCodes,
                   resetTokens, outbox, config>>

\* what a verify_email call leaves in ret; users_before and codes_before
\* are the store's tables when the call was made
VerifyCall(email, verification_code, res, users_before, codes_before) ==
    [op |-> "verify_email", arg |-> <<email, verification_code>>,
     res |-> res, users_before |-> users_before,
     codes_before |-> codes_before]

\* a slip: a code that resolves to no user is reported as verified
VerifyBegin_NoLookupFailure(p, email, verification_code) ==
    LET ids == users_of_verification_code(verificationCodes,
                                          verification_code, now)
    IN  /\ Free(p)
        /\ IF ids = {}
           THEN Returns(p, VerifyCall(email, verification_code,
                                      EmailVerified, users,
                                      verificationCodes))
           ELSE \E id \in ids :
                    Suspend(p, [pc |-> "verify_mark_user_as_verified",
                                email |-> email, code |-> verification_code,
                                user_id |-> id, users_before |-> users,
                                codes_before |-> verificationCodes])
        /\ UNCHANGED <<tokenVars, storeVars>>

\* verify_email to its await of mark_user_as_verified: the awaited
\* get_user_id_by_verification_code, which answers with a user bound to the
\* code or fails when there is none
VerifyBegin(p, email, verification_code) ==
    LET ids == users_of_verification_code(verificationCodes,
                                          verification_code, now)
    IN  /\ Free(p)
        /\ IF ids = {}
           THEN Returns(p, VerifyCall(email, verification_code, InvalidCode,
                                      users, verificationCodes))
           ELSE \E id \in ids :
                    Suspend(p, [pc |-> "verify_mark_user_as_verified",
                                email |-> email, code |-> verification_code,
                                user_id |-> id, users_before |-> users,
                                codes_before |-> verificationCodes])
        /\ UNCHANGED <<tokenVars, storeVars>>

\* verify_email from its await of mark_user_as_verified to that of
\* remove_verification_code
VerifyMark(p) ==
    /\ co[p].pc = "verify_mark_user_as_verified"
    /\ users' = mark_user_as_verified(users, co[p].user_id)
    /\ Suspend(p, [co[p] EXCEPT !.pc = "remove_verification_code"])
    /\ UNCHANGED <<tokenVars, apiKeys, issuedKeys, verificationCodes,
                   resetTokens, outbox, config>>

\* verify_email from its await of remove_verification_code
VerifyRemove(p) ==
    /\ co[p].pc = "remove_verification_code"
    /\ verificationCodes' =
           remove_verification_code(verificationCodes, co[p].code)
    /\ Returns(p, VerifyCall(co[p].email, co[p].code, EmailVerified,
                             co[p].users_before, co[p].codes_before))
    /\ UNCHANGED <<tokenVars, users, apiKeys, issuedKeys, resetTokens,
                   outbox, config>>

\* a caller obtains the User object of a registered account, the row as it
\* is stored now (as user() or register() return it), and calls
\* change_password with it; the body runs later, on that object
ChangePasswordBegin(p, email) ==
    /\ Free(p)
    /\ users[email].exists
    /\ Suspend(p, [pc |-> "change_password", user |-> users[email]])
    /\ UNCHANGED <<tokenVars, users, apiKeys, issuedKeys, verificationCodes,
                   resetTokens, outbox, config>>

\* the body of change_password: the current password is checked against
\* the User object passed, the store is not read
ChangePassword(p, current_password, new_password) ==
    /\ co[p].pc = "change_password"
    /\ LET r == change_password(users, co[p].user, current_password,
                                new_password)
       IN  /\ users' = r.us
           /\ Returns(p, [op |-> "change_password",
                          arg |-> [user |-> co[p].user,
                                   current_password |-> current_password,
                                   new_password |-> new_password],
                          res |-> r.res,
                          users_before |-> users])
    /\ UNCHANGED <<tokenVars, apiKeys, issuedKeys, verificationCodes,
                   resetTokens, outbox, config>>

\* a code no call has drawn
UnknownCode == Code("c0")
PresentedCodes ==
    {m.code : m \in {x \in outbox : x.kind = "verification"}}
    \cup {SentinelCode, UnknownCode}

NextLifecycle ==
    \/ \E p \in Single : InitializeBegin(p)
    \/ \E p \in Single, e \in Emails : RegisterBegin(p, e, "pw1")
    \/ \E p \in Procs : RegisterCollection(p)
    \/ \E p \in Procs, code \in Codes : RegisterAddUser(p, code)
    \/ \E p \in Procs : RegisterStoreCode(p)
    \/ \E p \in Procs : RegisterMail(p)
    \/ \E p \in Procs : RegisterMarkVerified(p)
    \/ \E p \in Procs : InitializeFinish(p)
    \/ \E p \in Procs, e \in Emails, code \in PresentedCodes :
           VerifyBegin(p, e, code)
    \/ \E p \in Procs : VerifyMark(p)
    \/ \E p \in Procs : VerifyRemove(p)
    \/ \E e \in Emails, pw \in Passwords : Login(e, pw)

SpecLifecycle == InitLifecycle /\ [][NextLifecycle]_vars

(***************************************************************************)
(* Account Lifecycle Service: registration, password change and login,     *)
(* from an empty user table.                                               *)
(***************************************************************************)
NextPassword ==
    \/ \E p \in Single, e \in Emails, pw \in Passwords :
           RegisterBegin(p, e, pw)
    \/ \E p \in Single : RegisterCollection(p)
    \/ \E p \in Single, code \in Codes : RegisterAddUser(p, code)
    \/ \E p \in Single : RegisterStoreCode(p)
    \/ \E p \in Single : RegisterMail(p)
    \/ \E p \in Single : RegisterMarkVerified(p)
    \/ \E e \in Emails, pw \in Passwords : Login(e, pw)
    \/ \E p \in Procs, e \in Emails : ChangePasswordBegin(p, e)
    \/ \E p \in Procs, cur \in Passwords, new \in Passwords :
           ChangePassword(p, cur, new)

SpecPassword == InitLifecycle /\ [][NextPassword]_vars

(***************************************************************************)
(* The password reset: request_password_reset and confirm_password_reset,  *)
(* each a coroutine, on the user tables of the Directory Store.  A caller  *)
(* of confirm_password_reset presents any code.                            *)
(***************************************************************************)
InitReset ==
    /\ now = 0
    /\ blacklist = {}
    /\ issued = {}
    /\ revoked = {}
    /\ redeemed = {}
    /\ users \in UserTables
    /\ apiKeys = {}
    /\ issuedKeys = {}
    /\ verificationCodes = {}
    /\ resetTokens = {}
    /\ outbox = {}
    /\ config = [require_email_verification |-> FALSE]
    /\ co = [p \in Procs |-> Idle]
    /\ ret = NoCall

\* what a confirm_password_reset call leaves in ret.  `replay`: a call has
\* returned success for the token before
ConfirmCall(reset_token, new_password, res) ==
    [op |-> "confirm_password_reset", arg |-> <<reset_token, new_password>>,
     res |-> res, replay |-> reset_token \in redeemed]

\* confirm_password_reset to its await of update_user_password: the
\* awaited lookup and the test of its answer
ConfirmBegin(p, reset_token, new_password) ==
    LET found == confirm_lookup(resetTokens, reset_token, now)
    IN  /\ Free(p)
        /\ IF found.ok
           THEN Suspend(p, [pc |-> "update_user_password",
                            token |-> reset_token,
                            new_password |-> new_password,
                            user_id |-> found.value])
           ELSE Returns(p, ConfirmCall(reset_token, new_password, found))
        /\ UNCHANGED <<tokenVars, storeVars>>

\* confirm_password_reset from its await of update_user_password to that
\* of remove_reset_token
ConfirmUpdate(p) ==
    /\ co[p].pc = "update_user_password"
    /\ users' = update_user_password(users, co[p].user_id,
                                     get_password_hash(co[p].new_password))
    /\ Suspend(p, [co[p] EXCEPT !.pc = "remove_reset_token"])
    /\ UNCHANGED <<tokenVars, apiKeys, issuedKeys, verificationCodes,
                   resetTokens, outbox, config>>

\* confirm_password_reset from its await of remove_reset_token
ConfirmFinish(p) ==
    /\ co[p].pc = "remove_reset_token"
    /\ resetTokens' = remove_reset_token(resetTokens, co[p].user_id)
    /\ redeemed' = redeemed \cup {co[p].token}
    /\ Returns(p, ConfirmCall(co[p].token, co[p].new_password,
                              PasswordReset))
    /\ UNCHANGED <<now, blacklist, issued, revoked, users, apiKeys,
                   issuedKeys, verificationCodes, outbox, config>>

NextReset ==
    \/ \E p \in Procs, e \in Emails, code \in Codes :
           RequestBegin(p, e, code)
    \/ \E p \in Procs : RequestStore(p, NoFault)
    \/ \E p \in Procs : RequestMail(p, NoFault)
    \/ \E p \in Procs, code \in Codes, pw \in Passwords :
           ConfirmBegin(p, code, pw)
    \/ \E p \in Procs : ConfirmUpdate(p)
    \/ \E p \in Procs : ConfirmFinish(p)
    \/ Tick

SpecReset == InitReset /\ [][NextReset]_vars

(***************************************************************************)
(* The failure kinds of the design document, as the code raises them.      *)
(***************************************************************************)
Revoked == Raise(R2RException(401, "Token has been invalidated"))
Invalid == Raise(R2RException(401, "Invalid or expired token"))
MalformedClaims == Raise(R2RException(401, "Invalid token claims"))
Expired == Raise(R2RException(401, "Token has expired"))
WrongTokenType == Raise(R2RException(401, "Invalid refresh token"))
\* InvalidCredentials, as user() and login raise it
InvalidCredentials ==
    {Raise(R2RException(401, "Could not validate credentials")),
     Raise(R2RException(401, "Invalid authentication credentials")),
     Raise(R2RException(401, "Incorrect email or password"))}

(***************************************************************************)
(* C1 as stated: once logout(t) has completed, every later decode_token(t) *)
(* fails with Revoked, whatever was called in between.                     *)
(***************************************************************************)
C1_RevokedStaysRevoked ==
    (ret.op = "decode_token" /\ ret.arg \in revoked) => ret.res = Revoked

(***************************************************************************)
(* C1 as amended: once logout(t) has completed, every later                *)
(* decode_token(t) fails: with Revoked while t's entry is in the           *)
(* blacklist, and with Invalid, MalformedClaims or Expired once            *)
(* clean_expired_blacklisted_tokens has purged the entry.                  *)
(***************************************************************************)
C1_RevokedNeverVerifies ==
    (ret.op = "decode_token" /\ ret.arg \in revoked) =>
        /\ ~ret.res.ok
        /\ ret.arg \in blacklist => ret.res = Revoked
        /\ ret.arg \notin blacklist =>
               ret.res \in {Invalid, MalformedClaims, Expired}

C1_Witness ==
    /\ ret.op = "decode_token"
    /\ ret.arg \in revoked
    /\ ret.arg \notin blacklist
    /\ ret.res = Expired

(***************************************************************************)
(* C2: a refresh_access_token(r) call that directly follows a call of      *)
(* refresh_access_token(r) which returned a token pair fails with Revoked, *)
(* so of two calls made one after the other at most one returns a pair.    *)
(***************************************************************************)
C2_RefreshSingleUse ==
    (ret.op = "refresh_access_token" /\ ret.again) => ret.res = Revoked

C2_Witness ==
    /\ ret.op = "refresh_access_token"
    /\ ret.again
    /\ ret.res = Revoked
    /\ ret.arg \in issued

(***************************************************************************)
(* C3: two concurrent refresh_access_token calls on the same refresh token *)
(* never both return a new token pair: no call returns a pair for a token  *)
(* for which a call has returned a pair before.                            *)
(***************************************************************************)
C3_NoDoubleRefresh ==
    ~( /\ ret.op = "refresh_access_token"
       /\ ret.res.ok
       /\ ret.replay )

(***************************************************************************)
(* C4: decode_token of a token made by create_access_token for subject s,  *)
(* called no later than the token's expiry instant and with no logout of   *)
(* that token before, returns claims of kind access with subject s.        *)
(***************************************************************************)
C4_AccessTokenRoundTrip ==
    \A s \in Emails, t0 \in 0..MaxTime :
        ( /\ ret.op = "decode_token"
          /\ ret.arg = create_access_token([sub |-> s], t0)
          /\ ret.arg \in issued
          /\ now <= t0 + AccessLifetime
          /\ ret.arg \notin revoked )
        => /\ ret.res.ok
           /\ ret.res.value.token_type = "access"
           /\ ret.res.value.email = s
           /\ ret.res.value.exp = t0 + AccessLifetime

C4_Witness ==
    /\ ret.op = "decode_token"
    /\ ret.arg = create_access_token([sub |-> "b@x.com"], now - AccessLifetime)
    /\ ret.arg \in issued
    /\ ret.res.ok
    /\ ret.res.value.email = "b@x.com"

(***************************************************************************)
(* C5: user() is total: whatever the credential string and the store, it   *)
(* returns a user or raises exactly one typed failure (an R2RException of  *)
(* a known kind), never another exception.                                 *)
(***************************************************************************)
C5_ResolverTotal ==
    ret.op = "user" =>
        \/ ret.res.ok /\ ret.res.value.exists
        \/ ret.res \in {InvalidFormat, InvalidKey, InactiveAccount, NotFound}

\* the API key's owning user record is missing
C5_Witness ==
    /\ ret.op = "user"
    /\ ret.res = NotFound
    /\ \E k \in apiKeys :
           /\ ret.arg = CompositeKey(k.public_key, SplitFirstDot(ret.arg).value[2])
           /\ ~get_user_by_id(users, k.user_id).ok

(***************************************************************************)
(* C6: when the token attempt and the API key attempt of user() both fail, *)
(* the failure raised is InvalidCredentials, whatever made each fail.      *)
(***************************************************************************)
C6_SingleFailureKind ==
    (ret.op = "user" /\ ~ret.res.ok) => ret.res \in InvalidCredentials

(***************************************************************************)
(* C7: user() on a token that decode_token accepts and whose subject has   *)
(* no user fails with InvalidCredentials.                                  *)
(***************************************************************************)
C7_OrphanTokenInvalidCredentials ==
    ( /\ ret.op = "user"
      /\ ret.token_res.ok
      /\ ~get_user_by_email(users, ret.token_res.value.email).ok )
    => ret.res \in InvalidCredentials

(***************************************************************************)
(* C8: authenticate_api_key on the composite key create_user_api_key       *)
(* returned for an active user u returns u, as long as the key has not     *)
(* been deleted; on the same public id with any other raw secret it fails  *)
(* with InvalidKey.                                                        *)
(***************************************************************************)
C8_ApiKeyRoundTrip ==
    ret.op = "authenticate_api_key" =>
        \A k \in issuedKeys :
            /\ ( /\ ret.arg = k.api_key
                 /\ \E r \in apiKeys : str_uuid(r.id) = k.key_id
                 /\ get_user_by_id(users, k.user_id).ok
                 /\ get_user_by_id(users, k.user_id).value.is_active )
               => ret.res = get_user_by_id(users, k.user_id)
            /\ \A secret \in Secrets \ {k.secret} :
                   ret.arg = CompositeKey(k.public_key, RawKey(secret))
                   => ret.res = InvalidKey

C8_Witness ==
    /\ ret.op = "authenticate_api_key"
    /\ ret.res.ok
    /\ \E k \in issuedKeys :
           ret.arg = k.api_key /\ ret.res.value.id = k.user_id

(***************************************************************************)
(* C9: request_password_reset returns the same success value for an email  *)
(* with a user and for an email without one, whenever the store and the    *)
(* notifier do not fail.                                                   *)
(***************************************************************************)
C9_ResetSameMessage ==
    ( /\ ret.op = "request_password_reset"
      /\ ret.store_fault = NoFault
      /\ ret.mail_fault = NoFault )
    => ret.res = GenericResetMessage

\* the email has no user
C9_Witness ==
    /\ ret.op = "request_password_reset"
    /\ ~get_user_by_email(users, ret.arg).ok
    /\ ret.res = GenericResetMessage
    /\ \E e \in Emails : \E m \in outbox : m.to = e

(***************************************************************************)
(* C10: login on an email without a user and login with a wrong password   *)
(* (on a user whose stored hash is a hash) fail alike, with                *)
(* InvalidCredentials ("Incorrect email or password").                     *)
(***************************************************************************)
C10_LoginNoEnumeration ==
    ( /\ ret.op = "login"
      /\ \/ ~get_user_by_email(users, ret.arg[1]).ok
         \/ LET h == get_user_by_email(users, ret.arg[1]).value
                          .hashed_password
            IN  /\ h \notin {NoHash, MalformedHash}
                /\ ~verify_password(ret.arg[2], h) )
    => ret.res = IncorrectEmailOrPassword

(***************************************************************************)
(* C11: with verification required, a user is unverified after register    *)
(* and holds the code that was mailed; login with the right password fails *)
(* with "Email not verified" while the user is unverified; verify_email    *)
(* with the code mailed at registration leaves the user verified; login    *)
(* then returns an access and a refresh token that both decode to the      *)
(* user's email.                                                           *)
(***************************************************************************)
C11_VerificationFlow ==
    config.require_email_verification =>
        /\ (ret.op = "register" /\ ret.res.ok) =>
               LET e == ret.arg[1]
               IN  /\ users[e].exists /\ ~users[e].is_verified
                   /\ \E v \in verificationCodes :
                          /\ v.id = users[e].id
                          /\ [kind |-> "verification", to |-> e,
                              code |-> v.verification_code] \in outbox
        /\ ( /\ ret.op = "login"
             /\ users[ret.arg[1]].exists
             /\ verify_password(ret.arg[2],
                                users[ret.arg[1]].hashed_password) ) =>
               IF users[ret.arg[1]].is_verified
               THEN /\ ret.res.ok
                    /\ \A ce \in BOOLEAN :
                         LET a == decode_token(blacklist,
                                      ret.res.value.access_token, now, ce)
                             r == decode_token(blacklist,
                                      ret.res.value.refresh_token, now, ce)
                         IN  /\ a.ok /\ a.value.email = ret.arg[1]
                             /\ a.value.token_type = "access"
                             /\ r.ok /\ r.value.email = ret.arg[1]
                             /\ r.value.token_type = "refresh"
               ELSE ret.res = EmailNotVerified
        /\ ( /\ ret.op = "verify_email"
             /\ ret.res.ok
             /\ [kind |-> "verification", to |-> ret.arg[1],
                 code |-> ret.arg[2]] \in outbox ) =>
               users[ret.arg[1]].is_verified

\* registered with verification required, verified by the mailed code,
\* logged in
C11_Witness ==
    /\ config.require_email_verification
    /\ ret.op = "login"
    /\ ret.res.ok
    /\ users[ret.arg[1]].is_verified
    /\ \E m \in outbox : m.kind = "verification" /\ m.to = ret.arg[1]

(***************************************************************************)
(* C12: a change_password call whose current password does not match the   *)
(* hash of the user passed fails with "Incorrect current password" and     *)
(* leaves the store as it was before the call, so that a login with the    *)
(* old password, the one the stored hash is of, gives a token pair (or     *)
(* "Email not verified" where verification is required and missing).       *)
(***************************************************************************)
C12_WrongPasswordNoChange ==
    ( /\ ret.op = "change_password"
      /\ ~verify_password(ret.arg.current_password,
                          ret.arg.user.hashed_password) )
    => /\ ret.res = WrongPassword
       /\ users = ret.users_before
       /\ \A old \in Passwords :
              LET stored == ret.users_before[ret.arg.user.email]
              IN  verify_password(old, stored.hashed_password) =>
                      LET l == login(users, config, ret.arg.user.email,
                                     old, now)
                      IN  IF /\ config.require_email_verification
                             /\ ~stored.is_verified
                          THEN l = EmailNotVerified
                          ELSE l.ok

\* the call has failed and a login with the old password succeeds
C12_Witness ==
    /\ ret.op = "change_password"
    /\ ret.res = WrongPassword
    /\ \E old \in Passwords :
           /\ old # ret.arg.current_password
           /\ verify_password(old, ret.arg.user.hashed_password)
           /\ verify_password(old, users[ret.arg.user.email].hashed_password)
           /\ login(users, config, ret.arg.user.email, old, now).ok

(***************************************************************************)
(* C13, as stated: no step removes a token string from the blacklist.      *)
(***************************************************************************)
C13_BlacklistAppendOnly == [][blacklist \subseteq blacklist']_vars

(***************************************************************************)
(* C13, amended: a step removes a token string from the blacklist only if  *)
(* it is a clean_expired_blacklisted_tokens call, and every entry that     *)
(* call removes is a token past its expiry; no other operation removes an  *)
(* entry.                                                                  *)
(***************************************************************************)
C13_OnlySweepRemovesExpired ==
    [][ \/ blacklist \subseteq blacklist'
        \/ /\ ret'.op = "clean_expired_blacklisted_tokens"
           /\ \A tok \in blacklist \ blacklist' :
                  LET p == verify_secure_token(tok, now, FALSE)
                  IN  p # NoPayload /\ p.exp # NoExp /\ p.exp < now ]_vars

\* the sweep has purged a revoked token and kept another entry
C13_Witness ==
    /\ ret.op = "clean_expired_blacklisted_tokens"
    /\ revoked \ blacklist # {}
    /\ blacklist # {}

(***************************************************************************)
(* C14: when refresh_access_token returns a new pair the presented refresh *)
(* token is in the blacklist, and when the blacklist write fails the call  *)
(* fails with that failure, returns no pair and adds nothing to the        *)
(* blacklist.                                                              *)
(***************************************************************************)
C14_BlacklistWriteBeforeReturn ==
    ret.op = "refresh_access_token" =>
        /\ ret.res.ok => (ret.write_fault = NoFault /\ ret.arg \in blacklist)
        /\ ret.write_fault # NoFault =>
               /\ ret.res = ret.write_fault
               /\ ~ret.res.ok
               /\ blacklist = ret.blacklist_before
               /\ issued = ret.issued_before

\* the write has failed for a refresh token that would have been rotated
C14_Witness ==
    /\ ret.op = "refresh_access_token"
    /\ ret.write_fault # NoFault
    /\ ret.res = ret.write_fault
    /\ ret.arg \notin blacklist
    /\ refresh_check(decode_token(blacklist, ret.arg, now, FALSE)).ok

(***************************************************************************)
(* C15: decode_token answers by the first check that fails, in the order   *)
(* blacklist, cipher, claim presence, expiry: Revoked for a blacklisted    *)
(* string whatever else is wrong with it, Invalid for one the cipher       *)
(* rejects, MalformedClaims for a missing subject, kind or expiry, Expired *)
(* for an expiry earlier than the current instant, and the claims          *)
(* otherwise.                                                              *)
(***************************************************************************)
C15_FirstFailingCheck ==
    ret.op = "decode_token" =>
        LET p == verify_secure_token(ret.arg, now, ret.cipherExpiry)
        IN  IF ret.arg \in blacklist THEN ret.res = Revoked
            ELSE IF p = NoPayload THEN ret.res = Invalid
            ELSE IF p.sub = None \/ p.token_type = None \/ p.exp = NoExp
            THEN ret.res = MalformedClaims
            ELSE IF p.exp < now THEN ret.res = Expired
            ELSE ret.res = Return(TokenData(p.sub, p.token_type, p.exp))

\* blacklisted, signed by someone else and past its expiry: Revoked
C15_Witness ==
    /\ ret.op = "decode_token"
    /\ ret.arg \in blacklist
    /\ Len(ret.arg) = 5
    /\ ret.arg[5] = Signature("attacker")
    /\ ret.arg[3].exp # NoExp
    /\ ret.arg[3].exp < now
    /\ ret.res = Revoked

(***************************************************************************)
(* C16: keys issued under one name, also for one user, have distinct       *)
(* public ids and record ids; issuing a key adds its record and leaves the *)
(* records that were there; delete_user_api_key(user, id) leaves every     *)
(* other record, and the composite key of a key it left still              *)
(* authenticates as its owner.                                             *)
(***************************************************************************)
C16_SameNameKeysCoexist ==
    /\ \A k1 \in issuedKeys, k2 \in issuedKeys :
           k1 # k2 => /\ k1.public_key # k2.public_key
                      /\ k1.key_id # k2.key_id
    /\ ret.op = "create_user_api_key" =>
           /\ ret.keys_before \subseteq apiKeys
           /\ Cardinality(apiKeys) = Cardinality(ret.keys_before) + 1
    /\ ret.op = "delete_user_api_key" =>
           \A k \in issuedKeys :
               ( /\ k.key_id # str_uuid(ret.arg[2])
                 /\ \E r \in ret.keys_before : str_uuid(r.id) = k.key_id )
               => /\ \E r \in apiKeys :
                         /\ str_uuid(r.id) = k.key_id
                         /\ r.public_key = k.public_key
                  /\ get_user_by_id(users, k.user_id).ok =>
                         authenticate_api_key(apiKeys, users, k.api_key)
                             = IF get_user_by_id(users, k.user_id)
                                      .value.is_active
                               THEN get_user_by_id(users, k.user_id)
                               ELSE InactiveAccount

\* two keys of one user and one name; one has been deleted, the other
\* authenticates
C16_Witness ==
    /\ ret.op = "delete_user_api_key"
    /\ ret.res = Return(TRUE)
    /\ \E k1 \in issuedKeys, k2 \in issuedKeys :
           /\ k1.user_id = k2.user_id
           /\ k1.key_id = str_uuid(ret.arg[2])
           /\ k2.key_id # str_uuid(ret.arg[2])
           /\ \E r1 \in ret.keys_before, r2 \in apiKeys :
                  /\ str_uuid(r1.id) = k1.key_id
                  /\ str_uuid(r2.id) = k2.key_id
                  /\ r1.name = r2.name
           /\ authenticate_api_key(apiKeys, users, k2.api_key).ok

(***************************************************************************)
(* C17: when the user exists and store_reset_token or the reset email      *)
(* fails, request_password_reset fails with that failure, whatever status  *)
(* it carries; only the missing user of the lookup gives the generic       *)
(* message.                                                                *)
(***************************************************************************)
C17_OnlyLookupNotFoundAbsorbed ==
    ( /\ ret.op = "request_password_reset"
      /\ get_user_by_email(users, ret.arg).ok
      /\ (ret.store_fault # NoFault \/ ret.mail_fault # NoFault) )
    => ret.res = IF ret.store_fault # NoFault THEN ret.store_fault
                 ELSE ret.mail_fault

(***************************************************************************)
(* C18: of two confirm_password_reset calls on the same reset token, made  *)
(* one after the other or interleaved, at most one succeeds and changes    *)
(* the password; the other fails with "Invalid or expired reset token".    *)
(***************************************************************************)
C18_ResetTokenSingleUse ==
    (ret.op = "confirm_password_reset" /\ ret.replay) =>
        ret.res = InvalidOrExpiredToken

(***************************************************************************)
(* C19: verify_email with a code that no user is bound to fails with       *)
(* InvalidCode and leaves the user table and the verification codes as     *)
(* they were.                                                              *)
(***************************************************************************)
C19_UnboundCodeChangesNothing ==
    ( /\ ret.op = "verify_email"
      /\ users_of_verification_code(ret.codes_before, ret.arg[2], now) = {} )
    => /\ ret.res = InvalidCode
       /\ users = ret.users_before
       /\ verificationCodes = ret.codes_before

\* an unverified user with a pending code is there when the call fails
C19_Witness ==
    /\ ret.op = "verify_email"
    /\ ret.res = InvalidCode
    /\ \E e \in Emails :
           /\ users[e].exists
           /\ ~users[e].is_verified
           /\ \E v \in verificationCodes : v.id = users[e].id

(***************************************************************************)
(* C20 (the pair a successful refresh_access_token(r) returns is usable    *)
(* when it is returned) is not settled here.  create_refresh_token gives   *)
(* the cipher the subject, the kind and now + lifetime only, so whether    *)
(* the refresh token signed at the instant r was issued is another string  *)
(* than r, which the call has just blacklisted, is decided inside the      *)
(* Credential Cipher, whose code is not part of the source modelled here.  *)
(***************************************************************************)

(***************************************************************************)
(* C21, as stated: decode_token on a token string that has been            *)
(* blacklisted, by logout or by rotation, fails with Revoked, Invalid or   *)
(* Expired, also after the sweep has purged its entry.                     *)
(***************************************************************************)
C21_BlacklistedFailsAsStated ==
    (ret.op = "decode_token" /\ ret.arg \in revoked) =>
        ret.res \in {Revoked, Invalid, Expired}

(***************************************************************************)
(* C21, amended: decode_token on a token string that has been blacklisted, *)
(* by logout or by rotation, never succeeds: it fails with Revoked while   *)
(* the entry is in the blacklist; an entry the sweep has purged is a token *)
(* past its expiry, on which decode_token fails with Invalid, Expired or,  *)
(* for a token without subject, MalformedClaims.                           *)
(***************************************************************************)
C21_BlacklistedNeverVerifies ==
    (ret.op = "decode_token" /\ ret.arg \in revoked) =>
        LET p == verify_secure_token(ret.arg, now, FALSE)
        IN  /\ ~ret.res.ok
            /\ IF ret.arg \in blacklist
               THEN ret.res = Revoked
               ELSE /\ p # NoPayload /\ p.exp # NoExp /\ p.exp < now
                    /\ ret.res \in {Invalid, Expired, MalformedClaims}
                    /\ ret.res = MalformedClaims =>
                           (p.sub = None /\ ~ret.cipherExpiry)

\* a token retired by rotation and purged by the sweep fails as expired
C21_Witness ==
    /\ ret.op = "decode_token"
    /\ ret.arg \in revoked
    /\ ret.arg \notin blacklist
    /\ ret.arg[3].token_type = "refresh"
    /\ ret.res \in {Invalid, Expired}

(***************************************************************************)
(* C22: a refresh_access_token(t) call that fails because decode_token(t)  *)
(* fails or because t is an access token leaves the blacklist as it was    *)
(* and hands out no token; an access token that decoded before the call    *)
(* decodes after it.                                                       *)
(***************************************************************************)
C22_FailedRefreshChangesNothing ==
    ( /\ ret.op = "refresh_access_token"
      /\ ~ret.res.ok
      /\ ret.write_fault = NoFault )
    => /\ blacklist = ret.blacklist_before
       /\ issued = ret.issued_before
       /\ ret.res # Revoked => ret.arg \notin blacklist
       /\ ret.res = WrongTokenType =>
              \A ce \in BOOLEAN :
                  LET d == decode_token(blacklist, ret.arg, now, ce)
                  IN  d.ok /\ d.value.token_type = "access"

\* an access token was presented and still decodes
C22_Witness ==
    /\ ret.op = "refresh_access_token"
    /\ ret.res = WrongTokenType
    /\ ret.arg \in issued
    /\ decode_token(blacklist, ret.arg, now, FALSE).ok

====
